---- MODULE Spec2Model ----
(***************************************************************************)
(* Model of the UltraMarket recommendation engine                          *)
(* (microservices/ml-ai/ai-recommendation-engine/src/index.py).            *)
(*                                                                         *)
(* Numbers.  Python floats are modelled as exact fixed-point integers:     *)
(*   - raw signal scores are in hundredths (a cosine similarity of 0.80 is *)
(*     80, a popularity score of 9.0 is 900);                              *)
(*   - signal weights and the cultural multipliers are in tenths;          *)
(*   - a weighted per-signal score and a total_score are in units of 1e-5, *)
(*     so that the x1.2 boost and the x0.8 penalty stay exact;             *)
(*   - prices are in UZS, the regional price multipliers in hundredths.    *)
(* Binary rounding of the floats is outside the model.                     *)
(***************************************************************************)
EXTENDS Integers, Sequences, FiniteSets, TLC

\* ------------------------------------------------------------------ bounds
\* Largest `limit` a request asks for.
MaxLimit == 2
\* Number of artifact sets that are ever built or begun (1: the set present
\* after start-up, 2..: sets of retrain runs, completed or failed).
MaxVersion == 2
\* Number of clock steps (of half a cache TTL each) that are followed.
MaxTicks == 4

\* ------------------------------------------------------- program constants
Signals == {"collaborative", "content", "cultural"}

UrbanRegions == {"TSH", "SAM"}

\* x1.2 and x0.8, in tenths.
LocalVendorBoost == 12
RussianOnlyPenalty == 8
\* `row['avg_rating'] or 3.0`
DefaultAvgRating == 3
\* regional_multipliers.get(region, 0.9), in hundredths
DefaultRegionMultiplier == 90

\* ------------------------------------------------------------ the store
\* Rows of products JOIN vendors.  p5 is listed by the content artifact but
\* has no row any more (a deleted product).  name = "" is a missing Uzbek
\* name, name_ru = "" a missing Russian one.
ProductIds == {"p1", "p2", "p3", "p4", "p5", "p6"}

product_row(pid) ==
    CASE pid = "p1" -> [present |-> TRUE, name |-> "Non", name_ru |-> "Hleb",
                        category |-> "food", price |-> 2000000,
                        vendor_region |-> "TSH", vendor_rating |-> 4,
                        cultural_relevance |-> 5]
      [] pid = "p2" -> [present |-> TRUE, name |-> "", name_ru |-> "Televizor",
                        category |-> "electronics", price |-> 3000000,
                        vendor_region |-> "SIR", vendor_rating |-> 5,
                        cultural_relevance |-> 2]
      [] pid = "p3" -> [present |-> TRUE, name |-> "Lola", name_ru |-> "",
                        category |-> "garden", price |-> 400000,
                        vendor_region |-> "NAM", vendor_rating |-> 3,
                        cultural_relevance |-> 10]
      [] pid = "p4" -> [present |-> TRUE, name |-> "", name_ru |-> "Konfety",
                        category |-> "sweets", price |-> 2400000,
                        vendor_region |-> "QOR", vendor_rating |-> 4,
                        cultural_relevance |-> 8]
      [] pid = "p6" -> [present |-> TRUE, name |-> "Olma", name_ru |-> "Yabloko",
                        category |-> "fruits", price |-> 450000,
                        vendor_region |-> "FAR", vendor_rating |-> 2,
                        cultural_relevance |-> 6]
      [] OTHER -> [present |-> FALSE]

\* The answer of the popularity query, in its ORDER BY order (order_count
\* DESC, avg_rating DESC); avg_rating 0 stands for NULL (no review).
popular_rows ==
    << [product_id |-> "p2", order_count |-> 3, avg_rating |-> 0],
       [product_id |-> "p3", order_count |-> 2, avg_rating |-> 5],
       [product_id |-> "p6", order_count |-> 2, avg_rating |-> 4],
       [product_id |-> "p1", order_count |-> 1, avg_rating |-> 5] >>

\* ------------------------------------------------------------ artifacts
\* The rows of user_interactions the collaborative artifact was trained on
\* (user, product, rating).
user_interactions ==
    { [user_id |-> "u_known", product_id |-> "p3", rating |-> 4],
      [user_id |-> "u_other", product_id |-> "p1", rating |-> 5],
      [user_id |-> "u_other", product_id |-> "p6", rating |-> 2] }

\* The collaborative artifact's user_index: the users of the pivot table.
user_index == { r.user_id : r \in user_interactions }

\* The content artifact's product_ids, parallel to the rows of its matrix.
content_product_ids == <<"p1", "p2", "p3", "p5">>

\* cosine_similarity(user_vector, feature_matrix)[0] for the user texts the
\* model draws from, in hundredths; the vectorizer's width is taken to
\* match the stored matrix.
SimilarityVectors == { <<80, 80, 10, 50>>, <<10, 90, 0, 70>> }

\* seasonal_multipliers, in tenths
seasonal_multipliers(event) ==
    CASE event = "ramadan" -> 15
      [] event = "navruz" -> 18
      [] event = "new_year" -> 20
      [] event = "wedding_season" -> 13

\* cultural_vectors: season_*, region_* keys; .get(key, [])
cultural_vectors(key) ==
    CASE key = "season_spring" -> <<"garden", "flowers", "cleaning", "navruz">>
      [] key = "season_summer" -> <<"cooling", "vacation", "fruits", "weddings">>
      [] key = "season_autumn" -> <<"harvest", "warm_clothes", "school">>
      [] key = "season_winter" -> <<"heating", "warm_food", "new_year">>
      [] key = "region_TSH" -> <<"electronics">>
      [] key = "region_NAM" -> <<"fruits">>
      [] OTHER -> <<>>

\* ------------------------------------------------------------- helpers
Min(a, b) == IF a <= b THEN a ELSE b

Range(s) == { s[i] : i \in DOMAIN s }

\* s[:n] of Python, n >= 0
Take(s, n) == SubSeq(s, 1, Min(n, Len(s)))

\* s[k:] of Python, k >= 0
Drop(s, k) == SubSeq(s, Min(k, Len(s)) + 1, Len(s))

Reverse(s) == [i \in 1..Len(s) |-> s[Len(s) + 1 - i]]

Ids(recs) == [i \in 1..Len(recs) |-> recs[i].product_id]

\* np.argsort(a): an index order that sorts a ascending.  The default sort
\* kind is not stable, so equal values may come out in any order.
Argsorts(a) ==
    { p \in [1..Len(a) -> 1..Len(a)] :
        /\ \A i, j \in 1..Len(a) : i # j => p[i] # p[j]
        /\ \A i \in 1..(Len(a) - 1) : a[p[i]] <= a[p[i + 1]] }

\* ------------------------------------------------ product similarity
\* The rows a stored feature matrix may hold: two features, each 0 or 1.
FeatureVectors == [1..2 -> {0, 1}]

FeatureMatrices == [1..Len(content_product_ids) -> FeatureVectors]

\* The matrix of the runs that do not look at it.
DefaultFeatureMatrix == [i \in 1..Len(content_product_ids) |-> [k \in 1..2 |-> 1]]

dot(u, v) == u[1] * v[1] + u[2] * v[2]

\* cosine_similarity of two rows: 0 when either has norm 0.  The rows have
\* no negative entry, so the cosine is ordered as its square is, and the
\* square is given exactly, in quarters (the norms' squares are 1 or 2).
cosine_similarity(u, v) ==
    IF dot(u, u) = 0 \/ dot(v, v) = 0 THEN 0
    ELSE (dot(u, v) * dot(u, v) * 4) \div (dot(u, u) * dot(v, v))

\* similarities = cosine_similarity(product_vector, feature_matrix)[0]
similarities_to(matrix, product_idx) ==
    [i \in 1..Len(matrix) |-> cosine_similarity(matrix[product_idx], matrix[i])]

\* model['product_ids'].index(product_id)
index_of(ids, id) == CHOOSE i \in 1..Len(ids) : ids[i] = id /\ \A j \in 1..(i - 1) : ids[j] # id

\* [::-1][1:limit+1] of the argsort order, and the loop that builds
\* similar_products from it.
similar_products_of(similarities, order, limit) ==
    LET top_indices == Take(Drop(Reverse(order), 1), limit)
    IN [i \in 1..Len(top_indices) |->
          [product_id |-> content_product_ids[top_indices[i]],
           similarity_score |-> similarities[top_indices[i]],
           reason |-> "content_similarity"]]

\* --------------------------------------------------- pricing and locality
base_prices(income_level) ==
    CASE income_level = "low" -> 500000
      [] income_level = "medium" -> 2000000
      [] income_level = "high" -> 10000000
      [] OTHER -> 2000000

regional_multipliers(region) ==
    CASE region = "TSH" -> 120
      [] region = "SAM" -> 100
      [] region = "BUX" -> 90
      [] region = "AND" -> 85
      [] region = "FAR" -> 85
      [] region = "NAM" -> 80
      [] region = "QAS" -> 80
      [] region = "SUR" -> 75
      [] region = "NAV" -> 80
      [] region = "JIZ" -> 80
      [] region = "SIR" -> 80
      [] region = "XOR" -> 75
      [] region = "QOR" -> 70
      [] OTHER -> DefaultRegionMultiplier

\* The keys of regional_multipliers (and of adjacent_regions).
EnumeratedRegions ==
    {"TSH", "SAM", "BUX", "AND", "FAR", "NAM", "QAS", "SUR", "NAV", "JIZ",
     "SIR", "XOR", "QOR"}

\* get_max_price_for_user with an unknown region left unadjusted (x1.0).
get_max_price_unknown_region_unadjusted(user_profile) ==
    LET income_level == IF user_profile.income_level = "None"
                        THEN "medium" ELSE user_profile.income_level
        multiplier == IF user_profile.region \in EnumeratedRegions
                      THEN regional_multipliers(user_profile.region) ELSE 100
    IN (base_prices(income_level) * multiplier) \div 100

\* get_max_price_for_user with the regional adjustment left out.
get_max_price_without_region(user_profile) ==
    LET income_level == IF user_profile.income_level = "None"
                        THEN "medium" ELSE user_profile.income_level
    IN base_prices(income_level)

\* income_level "None" is the absent Optional field.
get_max_price_for_user(user_profile) ==
    LET income_level == IF user_profile.income_level = "None"
                        THEN "medium" ELSE user_profile.income_level
    IN (base_prices(income_level) * regional_multipliers(user_profile.region)) \div 100

adjacent_regions(region) ==
    CASE region = "TSH" -> {"SIR", "JIZ"}
      [] region = "SAM" -> {"BUX", "QAS", "NAV"}
      [] region = "BUX" -> {"SAM", "QAS", "XOR"}
      [] region = "AND" -> {"FAR", "NAM"}
      [] region = "FAR" -> {"AND", "NAM"}
      [] region = "NAM" -> {"AND", "FAR"}
      [] region = "QAS" -> {"SAM", "BUX", "SUR"}
      [] region = "SUR" -> {"QAS"}
      [] region = "NAV" -> {"SAM", "BUX"}
      [] region = "JIZ" -> {"TSH", "NAV"}
      [] region = "SIR" -> {"TSH"}
      [] region = "XOR" -> {"BUX", "QOR"}
      [] region = "QOR" -> {"XOR"}
      [] OTHER -> {}

\* should_prefer_local_vendor without the adjacency table.
should_prefer_same_region_only(user_profile, vendor_region) ==
    user_profile.region = vendor_region

should_prefer_local_vendor(user_profile, vendor_region) ==
    \/ user_profile.region = vendor_region
    \/ vendor_region \in adjacent_regions(user_profile.region)

\* ------------------------------------------------------ signal generators
\* The popularity fallback: one candidate per row of the query's answer.
get_popular_recommendations(limit) ==
    LET rows == Take(popular_rows, limit)
    IN [i \in 1..Len(rows) |->
          [product_id |-> rows[i].product_id,
           score |-> rows[i].order_count
                     * (IF rows[i].avg_rating = 0 THEN DefaultAvgRating
                        ELSE rows[i].avg_rating) * 100,
           reason |-> "popular_in_uzbekistan",
           cultural_factor |-> ""]]

\* The candidates get_collaborative_recommendations returns for a user who
\* has a row in user_index: the loop over the similar users appends nothing.
similar_user_recommendations(limit) == Take(<<>>, limit)

\* get_content_recommendations, given the similarity vector and the index
\* order argsort returned: [::-1][:limit], one candidate per index.
content_recommendations(similarities, order, limit) ==
    LET top_indices == Take(Reverse(order), limit)
    IN [i \in 1..Len(top_indices) |->
          [product_id |-> content_product_ids[top_indices[i]],
           score |-> similarities[top_indices[i]],
           reason |-> "content_similarity",
           cultural_factor |-> ""]]

get_current_season(month) ==
    IF month \in {3, 4, 5} THEN "spring"
    ELSE IF month \in {6, 7, 8} THEN "summer"
    ELSE IF month \in {9, 10, 11} THEN "autumn"
    ELSE "winter"

season_key(season) ==
    CASE season = "spring" -> "season_spring"
      [] season = "summer" -> "season_summer"
      [] season = "autumn" -> "season_autumn"
      [] season = "winter" -> "season_winter"

region_key(region) ==
    CASE region = "TSH" -> "region_TSH"
      [] region = "NAM" -> "region_NAM"
      [] OTHER -> "region_other"

\* cultural_branch with the festival tested before the observance.
cultural_branch_festival_first(is_ramadan, is_navruz, is_new_year, season) ==
    IF is_navruz
    THEN [categories |-> <<"traditional_clothes", "decorations", "sweets">>,
          multiplier |-> seasonal_multipliers("navruz")]
    ELSE IF is_ramadan
    THEN [categories |-> <<"food", "dates", "religious_items", "gifts">>,
          multiplier |-> seasonal_multipliers("ramadan")]
    ELSE IF is_new_year
    THEN [categories |-> <<"electronics", "toys", "clothes", "decorations">>,
          multiplier |-> seasonal_multipliers("new_year")]
    ELSE [categories |-> cultural_vectors(season_key(season)),
          multiplier |-> 10]

\* The if/elif chain of get_cultural_recommendations: the categories of the
\* branch taken (before the regional ones are appended) and its multiplier,
\* in tenths.
cultural_branch(is_ramadan, is_navruz, is_new_year, season) ==
    IF is_ramadan
    THEN [categories |-> <<"food", "dates", "religious_items", "gifts">>,
          multiplier |-> seasonal_multipliers("ramadan")]
    ELSE IF is_navruz
    THEN [categories |-> <<"traditional_clothes", "decorations", "sweets">>,
          multiplier |-> seasonal_multipliers("navruz")]
    ELSE IF is_new_year
    THEN [categories |-> <<"electronics", "toys", "clothes", "decorations">>,
          multiplier |-> seasonal_multipliers("new_year")]
    ELSE [categories |-> cultural_vectors(season_key(season)),
          multiplier |-> 10]

\* The locals relevant_categories and multiplier as they stand when
\* products_query is sent.
cultural_locals(date, user_profile) ==
    LET branch == cultural_branch(date.is_ramadan, date.is_navruz,
                                  date.is_new_year, get_current_season(date.month))
    IN [relevant_categories |->
            branch.categories \o cultural_vectors(region_key(user_profile.region)),
        multiplier |-> branch.multiplier]

get_cultural_explanation(is_ramadan, is_navruz, is_new_year, season) ==
    IF is_ramadan THEN "Ramazon muborak! Ro'za tutish uchun tavsiya etilgan mahsulotlar"
    ELSE IF is_navruz THEN "Navruz bayrami muborak! An'anaviy bayram mahsulotlari"
    ELSE IF is_new_year THEN "Yangi yil bayrami! Bayram sovg'alari va bezaklari"
    ELSE CASE season = "spring" -> "Bahor mavsumi uchun tavsiya etilgan mahsulotlar"
           [] season = "summer" -> "Yoz mavsumi uchun tavsiya etilgan mahsulotlar"
           [] season = "autumn" -> "Kuz mavsumi uchun tavsiya etilgan mahsulotlar"
           [] season = "winter" -> "Qish mavsumi uchun tavsiya etilgan mahsulotlar"
           [] OTHER -> "Sizga tavsiya etilgan mahsulotlar"

\* The answers the store may give to products_query: the products of the
\* categories, ORDER BY vendor_rating * cultural_relevance * multiplier
\* DESC (equal keys in any order), LIMIT limit.
cultural_query_answers(categories, multiplier, limit) ==
    LET match == { p \in ProductIds :
                     /\ product_row(p).present
                     /\ product_row(p).category \in Range(categories) }
        key(p) == product_row(p).vendor_rating
                  * product_row(p).cultural_relevance * multiplier
        n == Cardinality(match)
        orders == { s \in [1..n -> match] :
                      /\ \A i, j \in 1..n : i # j => s[i] # s[j]
                      /\ \A i \in 1..(n - 1) : key(s[i]) >= key(s[i + 1]) }
    IN { Take(s, limit) : s \in orders }

\* One candidate per row of the answer.
cultural_recommendations(rows, multiplier, date) ==
    [i \in 1..Len(rows) |->
       [product_id |-> rows[i],
        score |-> product_row(rows[i]).vendor_rating
                  * product_row(rows[i]).cultural_relevance * multiplier,
        reason |-> "cultural_relevance",
        cultural_factor |->
            get_cultural_explanation(date.is_ramadan, date.is_navruz,
                date.is_new_year, get_current_season(date.month))]]

\* ------------------------------------------------------------- fusion
\* signal_weights with the urban adjustment applied to every region.
signal_weights_urban_everywhere(user_profile, context) ==
    LET base == [collaborative |-> 4, content |-> 4, cultural |-> 2]
    IN IF context = "holiday_shopping"
       THEN [base EXCEPT !.cultural = @ + 2, !.collaborative = @ - 1,
                         !.content = @ - 1]
       ELSE base

\* signal_weights with a holiday adjustment that only adds to the cultural
\* weight.
signal_weights_holiday_only_adds(user_profile, context) ==
    LET base == [collaborative |-> 4, content |-> 3, cultural |-> 3]
        regional ==
            IF user_profile.region \in UrbanRegions
            THEN [base EXCEPT !.content = @ + 1, !.cultural = @ - 1]
            ELSE [base EXCEPT !.cultural = @ + 1, !.content = @ - 1]
    IN IF context = "holiday_shopping"
       THEN [regional EXCEPT !.cultural = @ + 2]
       ELSE regional

\* The signal weights, in tenths.
signal_weights(user_profile, context) ==
    LET base == [collaborative |-> 4, content |-> 3, cultural |-> 3]
        regional ==
            IF user_profile.region \in UrbanRegions
            THEN [base EXCEPT !.content = @ + 1, !.cultural = @ - 1]
            ELSE [base EXCEPT !.cultural = @ + 1, !.content = @ - 1]
    IN IF context = "holiday_shopping"
       THEN [regional EXCEPT !.cultural = @ + 2, !.collaborative = @ - 1,
                             !.content = @ - 1]
       ELSE regional

\* rec['score'] * weights[signal], in units of 1e-5.
weighted_score(score, weight) == score * weight * 100

NoScores == [s \in {} |-> 0]

\* new_entry with a zero for every signal.
new_entry_zero_filled(product_id) ==
    [product_id |-> product_id, scores |-> [s \in Signals |-> 0],
     reasons |-> <<>>, total_score |-> 0, cultural_factor |-> ""]

new_entry(product_id) ==
    [product_id |-> product_id, scores |-> NoScores, reasons |-> <<>>,
     total_score |-> 0, cultural_factor |-> ""]

\* One of the three `for rec in ..._recs` loops: all is the dict
\* all_recommendations, kept as its insertion order and its values.
RECURSIVE add_recommendations(_, _, _, _)
add_recommendations(all, recs, signal, weight) ==
    IF recs = <<>> THEN all
    ELSE LET rec == Head(recs)
             pid == rec.product_id
             seen == pid \in DOMAIN all.ent
             old == IF seen THEN all.ent[pid] ELSE new_entry(pid)
             new == [old EXCEPT
                       !.scores = [s \in DOMAIN old.scores \cup {signal} |->
                                     IF s = signal
                                     THEN weighted_score(rec.score, weight)
                                     ELSE old.scores[s]],
                       !.reasons = Append(@, rec.reason),
                       !.cultural_factor =
                           IF signal = "cultural" /\ rec.cultural_factor # ""
                           THEN rec.cultural_factor ELSE @]
         IN add_recommendations(
                [order |-> IF seen THEN all.order ELSE Append(all.order, pid),
                 ent |-> [q \in DOMAIN all.ent \cup {pid} |->
                            IF q = pid THEN new ELSE all.ent[q]]],
                Tail(recs), signal, weight)

\* sum(data['scores'].values())
RECURSIVE sum_scores(_)
sum_scores(scores) ==
    IF DOMAIN scores = {} THEN 0
    ELSE LET s == CHOOSE t \in DOMAIN scores : TRUE
         IN scores[s] + sum_scores([t \in DOMAIN scores \ {s} |-> scores[t]])

\* insert_by_total that puts a candidate before the ones it ties with.
RECURSIVE insert_before_ties(_, _)
insert_before_ties(sorted, e) ==
    IF sorted = <<>> THEN <<e>>
    ELSE IF Head(sorted).total_score > e.total_score
         THEN <<Head(sorted)>> \o insert_before_ties(Tail(sorted), e)
         ELSE <<e>> \o sorted

\* sorted(..., key=total_score, reverse=True): descending and stable.
RECURSIVE insert_by_total(_, _)
insert_by_total(sorted, e) ==
    IF sorted = <<>> THEN <<e>>
    ELSE IF Head(sorted).total_score >= e.total_score
         THEN <<Head(sorted)>> \o insert_by_total(Tail(sorted), e)
         ELSE <<e>> \o sorted

RECURSIVE sort_by_total(_, _)
sort_by_total(sorted, rest) ==
    IF rest = <<>> THEN sorted
    ELSE sort_by_total(insert_by_total(sorted, Head(rest)), Tail(rest))

combine_recommendations(collaborative_recs, content_recs, cultural_recs, user_profile, context) ==
    LET weights == signal_weights(user_profile, context)
        a0 == [order |-> <<>>, ent |-> [q \in {} |-> new_entry(q)]]
        a1 == add_recommendations(a0, collaborative_recs, "collaborative",
                                  weights.collaborative)
        a2 == add_recommendations(a1, content_recs, "content", weights.content)
        a3 == add_recommendations(a2, cultural_recs, "cultural", weights.cultural)
        values == [i \in 1..Len(a3.order) |->
                     [a3.ent[a3.order[i]] EXCEPT
                        !.total_score = sum_scores(a3.ent[a3.order[i]].scores)]]
    IN sort_by_total(<<>>, values)

\* ---------------------------------------------------------- post-filter
\* The body of the loop of apply_uzbekistan_filters for one candidate that
\* has a row and passes the price filter: the two score adjustments and
\* rec.update(...).
adjust_and_enrich(rec, product, user_profile) ==
    LET boosted == IF should_prefer_local_vendor(user_profile, product.vendor_region)
                   THEN (rec.total_score * LocalVendorBoost) \div 10
                   ELSE rec.total_score
        adjusted == IF /\ user_profile.language = "uz"
                       /\ product.name_ru # ""
                       /\ product.name = ""
                    THEN (boosted * RussianOnlyPenalty) \div 10
                    ELSE boosted
    IN [product_id |-> rec.product_id, scores |-> rec.scores,
        reasons |-> rec.reasons, total_score |-> adjusted,
        cultural_factor |-> rec.cultural_factor,
        product_name |-> product.name, product_name_ru |-> product.name_ru,
        price |-> product.price, vendor_region |-> product.vendor_region,
        vendor_rating |-> product.vendor_rating, category |-> product.category]

\* Whether the candidate is kept: it has a row and its price is within the
\* user's cap.
passes_filters(rec, user_profile) ==
    /\ product_row(rec.product_id).present
    /\ ~(product_row(rec.product_id).price > get_max_price_for_user(user_profile))

RECURSIVE apply_uzbekistan_filters(_, _)
apply_uzbekistan_filters(recommendations, user_profile) ==
    IF recommendations = <<>> THEN <<>>
    ELSE LET rec == Head(recommendations)
             rest == apply_uzbekistan_filters(Tail(recommendations), user_profile)
         IN IF passes_filters(rec, user_profile)
            THEN <<adjust_and_enrich(rec, product_row(rec.product_id), user_profile)>>
                 \o rest
            ELSE rest

\* The exclusion followed by a new sort of what is left.
exclude_and_sort_again(filtered_recs, exclude_products) ==
    sort_by_total(<<>>,
        SelectSeq(filtered_recs, LAMBDA rec : rec.product_id \notin exclude_products))

\* [rec for rec in filtered_recs if rec['product_id'] not in exclude_products]
exclude_products_from(filtered_recs, exclude_products) ==
    SelectSeq(filtered_recs, LAMBDA rec : rec.product_id \notin exclude_products)

\* The return without the slice.
limit_results_not_applied(recs, limit) == recs

\* filtered_recs[:limit]
limit_results(recs, limit) == Take(recs, limit)

\* ------------------------------------------------------ request inputs
\* "u_known" has a row in user_index, "u_cold" has none.  "XXX" is a region
\* code outside the 13 enumerated ones, "vip" an income tier outside the
\* three known ones, "None" the absent income_level.
Profiles ==
    [user_id : {"u_known", "u_cold"},
     region : {"TSH", "NAM", "XXX"},
     language : {"uz", "ru"},
     income_level : {"low", "medium", "high", "None", "vip"}]

Contexts == {"general", "holiday_shopping"}

ExcludeLists == { {}, {"p1"}, {"p2", "p3"} }

\* The callers of the runs in which training goes on beside the requests.
TrainingProfiles ==
    [user_id : {"u_known", "u_cold"}, region : {"TSH", "NAM"},
     language : {"uz"}, income_level : {"medium"}]

TrainingExcludeLists == { {}, {"p1"} }

\* The callers of the runs in which calls are compared with earlier ones:
\* an urban and a non-urban region.
RepeatedProfiles ==
    [user_id : {"u_cold"}, region : {"TSH", "NAM"},
     language : {"uz"}, income_level : {"medium"}]

\* What datetime.now() and the two calendars may say: every combination of
\* the three period flags, and each season with no period at all.
Dates ==
    { [is_ramadan |-> r, is_navruz |-> n, is_new_year |-> y, month |-> 3] :
        r, n, y \in BOOLEAN }
    \cup { [is_ramadan |-> FALSE, is_navruz |-> FALSE, is_new_year |-> FALSE,
            month |-> m] : m \in {1, 7, 10} }

NoDate == [is_ramadan |-> FALSE, is_navruz |-> FALSE, is_new_year |-> FALSE,
           month |-> 0]

NoRequest ==
    [user_profile |-> [user_id |-> "", region |-> "", language |-> "",
                       income_level |-> ""],
     context |-> "", limit |-> 0, exclude_products |-> {}]

\* ------------------------------------------------ user profiles, cache
\* config.CACHE_TTL, in seconds
CACHE_TTL == 1800

\* The clock moves in steps of half a TTL.
TickSeconds == CACHE_TTL \div 2

\* The users get_user_profile is asked for; "u9" has no row in users.
ProfileUserIds == {"u1", "u2", "u9"}

NoRow == [present |-> FALSE, user_id |-> "", region |-> "", language |-> "",
          income_level |-> ""]

\* The rows of users as the query returns them; "None" is NULL.
user_row(user_id) ==
    CASE user_id = "u1" -> [present |-> TRUE, user_id |-> "u1", region |-> "TSH",
                            language |-> "None", income_level |-> "medium"]
      [] user_id = "u2" -> [present |-> TRUE, user_id |-> "u2", region |-> "NAM",
                            language |-> "ru", income_level |-> "None"]
      [] OTHER -> NoRow

\* `return None`
NoProfile == [user_id |-> "None", region |-> "", language |-> "",
              income_level |-> ""]

\* UserProfile(user_id=row['user_id'], ..., language=row['language'] or 'uz', ...)
profile_from_row(row) ==
    [user_id |-> row.user_id, region |-> row.region,
     language |-> IF row.language = "None" THEN "uz" ELSE row.language,
     income_level |-> row.income_level]

\* json.dumps(profile.dict()): the text, as the sequence of its members.
json_dumps(profile) ==
    << <<"user_id", profile.user_id>>, <<"region", profile.region>>,
       <<"language", profile.language>>, <<"income_level", profile.income_level>> >>

\* The value of a member of the parsed text.
json_member(text, name) ==
    text[CHOOSE i \in 1..Len(text) : text[i][1] = name][2]

\* UserProfile(**json.loads(cached_profile))
json_loads(text) ==
    [user_id |-> json_member(text, "user_id"),
     region |-> json_member(text, "region"),
     language |-> json_member(text, "language"),
     income_level |-> json_member(text, "income_level")]

\* cache_key with the user left out of the key.
cache_key_without_user(user_id) == <<"user_profile", "">>

\* f"user_profile:{user_id}"
cache_key(user_id) == <<"user_profile", user_id>>

CacheKeys == { <<"user_profile", u>> : u \in ProfileUserIds \cup {""} }

\* A key that was never set; value <<>> is redis' nil.
NoEntry == [value |-> <<>>, expires |-> 0]

\* redis GET at time now: the value while the key has not expired, else nil.
redis_get(entries, key, time) ==
    IF entries[key].value # <<>> /\ time < entries[key].expires
    THEN entries[key].value
    ELSE <<>>

\* redis SETEX key ttl value at time now.
redis_setex(entries, key, ttl, value, time) ==
    [entries EXCEPT ![key] = [value |-> value, expires |-> time + ttl]]

NoProfileCall ==
    [pc |-> "idle", user_id |-> "", cached_profile |-> <<>>, row |-> NoRow,
     profile |-> NoProfile, returned |-> NoProfile, read_store |-> FALSE,
     wrote_cache |-> FALSE, written_at |-> 0]

\* ------------------------------------------------------------- state
VARIABLES
    models,             \* self.models: signal -> artifact set (0: no entry)
    built,              \* artifact sets loaded, trained or abandoned so far
    initialized,        \* initialize() has been called
    train_pc,           \* where train_models is
    models_before,      \* self.models as the latest train_models run found it
    running,            \* the task the event loop is running ("none": all
                        \* tasks are suspended at an await or finished)
    request,            \* the arguments of the get_recommendations call
    pc,                 \* where get_recommendations is
    read_from,          \* signal -> the artifact set this request read (-1: not yet)
    now,                \* the date the cultural generator saw
    locals,             \* its relevant_categories and multiplier
    collaborative_recs,
    content_recs,
    cultural_recs,
    combined_recs,
    filtered_recs,      \* the result of apply_uzbekistan_filters
    result,             \* what get_recommendations returned
    failed_at,          \* the fetch whose I/O error ended the request
    weights,            \* the weights dict of this call's combine_recommendations
    last_call,          \* context, region and weights of the call before
                        \* (kept only where calls are compared)
    feature_matrix,     \* the content artifact's feature_matrix
    similar,            \* the call of the similar-products endpoint
    users,              \* the users table: user_id -> row
    cache,              \* redis: key -> value and expiry time
    clock,              \* seconds since start
    profile_call        \* the call of get_user_profile

engineVars == <<models, built, initialized, train_pc, models_before>>
requestVars == <<request, pc, read_from, now, locals, collaborative_recs, content_recs,
                 cultural_recs, combined_recs, filtered_recs, result, failed_at,
                 weights>>
similarVars == <<feature_matrix, similar>>
profileVars == <<users, cache, clock, profile_call>>
vars == <<engineVars, running, requestVars, similarVars, last_call, profileVars>>

NotRead == [s \in Signals |-> -1]

NoLocals == [relevant_categories |-> <<>>, multiplier |-> 0]

\* Before `weights = {...}` is executed.
NoWeights == [s \in Signals |-> 0]

NoCall == [context |-> "", region |-> "", weights |-> NoWeights]

NoSimilarCall == [status |-> "idle", product_id |-> "", limit |-> 0,
                  similar_products |-> <<>>]

\* The state after construction, but for the content artifact's matrix.
Constructed ==
    /\ models = [s \in Signals |-> 0]
    /\ built = 0
    /\ initialized = FALSE
    /\ train_pc = "idle"
    /\ models_before = [s \in Signals |-> 0]
    /\ running = "none"
    /\ request = NoRequest
    /\ pc = "idle"
    /\ read_from = NotRead
    /\ now = NoDate
    /\ locals = NoLocals
    /\ collaborative_recs = <<>>
    /\ content_recs = <<>>
    /\ cultural_recs = <<>>
    /\ combined_recs = <<>>
    /\ filtered_recs = <<>>
    /\ result = <<>>
    /\ failed_at = "none"
    /\ weights = NoWeights
    /\ last_call = NoCall
    /\ similar = NoSimilarCall
    /\ users = [u \in ProfileUserIds |-> user_row(u)]
    /\ cache = [k \in CacheKeys |-> NoEntry]
    /\ clock = 0
    /\ profile_call = NoProfileCall

Init ==
    /\ Constructed
    /\ feature_matrix = DefaultFeatureMatrix

\* The same, for any content of the stored feature matrix.
InitSimilar ==
    /\ Constructed
    /\ feature_matrix \in FeatureMatrices

\* ------------------------------------------------------ models, training
\* load_models when the three files exist: three joblib.load calls with no
\* await between them.
LoadModels ==
    /\ ~initialized
    /\ running = "none"
    /\ initialized' = TRUE
    /\ models' = [s \in Signals |-> 1]
    /\ built' = 1
    /\ UNCHANGED <<train_pc, models_before, running, requestVars, similarVars,
                   last_call, profileVars>>

\* load_models when the files are missing (FileNotFoundError on the first
\* load): train_models is awaited and suspends in its first fetch.
LoadModelsMissing ==
    /\ ~initialized
    /\ running = "none"
    /\ initialized' = TRUE
    /\ train_pc' = "fetch"
    /\ models_before' = models
    /\ UNCHANGED <<models, built, running, requestVars, similarVars,
                   last_call, profileVars>>

\* load_models when the second or the third file is missing: the loads
\* before it have filled their entries, then FileNotFoundError sends it to
\* train_models, which suspends in its first fetch.
LoadModelsSomeMissing ==
    /\ ~initialized
    /\ running = "none"
    /\ \E loaded \in { {"collaborative"}, {"collaborative", "content"} } :
          /\ models' = [s \in Signals |-> IF s \in loaded THEN 1 ELSE 0]
          /\ models_before' = [s \in Signals |-> IF s \in loaded THEN 1 ELSE 0]
    /\ built' = 1
    /\ initialized' = TRUE
    /\ train_pc' = "fetch"
    /\ UNCHANGED <<running, requestVars, similarVars, last_call, profileVars>>

\* POST /api/v1/retrain-models: train_models is queued as a background task
\* (one training run at a time in the model).
retrain_models ==
    /\ initialized
    /\ running = "none"
    /\ train_pc \in {"idle", "failed"}
    /\ built < MaxVersion
    /\ train_pc' = "fetch"
    /\ models_before' = models
    /\ UNCHANGED <<models, built, initialized, running, requestVars, similarVars,
                   last_call, profileVars>>

\* train_models: the three fetches have answered; the coroutine runs on
\* with no further await that suspends.
TrainFetched ==
    /\ train_pc = "fetch"
    /\ running = "none"
    /\ train_pc' = "collaborative"
    /\ running' = "train"
    /\ UNCHANGED <<models, built, initialized, models_before, requestVars, similarVars,
                   last_call, profileVars>>

\* self.models[signal] = await self.train_<signal>_model(...)
train_signal(signal, next_pc) ==
    /\ train_pc = signal
    /\ running = "train"
    /\ models' = [models EXCEPT ![signal] = built + 1]
    /\ train_pc' = next_pc
    /\ UNCHANGED <<initialized, models_before, requestVars, similarVars,
                   last_call, profileVars>>

TrainCollaborative ==
    /\ train_signal("collaborative", "content")
    /\ UNCHANGED <<built, running>>

TrainContent ==
    /\ train_signal("content", "cultural")
    /\ UNCHANGED <<built, running>>

\* The last assignment, the three joblib.dump calls and the return.
TrainCultural ==
    /\ train_signal("cultural", "idle")
    /\ built' = built + 1
    /\ running' = "none"

\* train_collaborative_model, train_content_model or train_cultural_model
\* raises (malformed interaction data, an empty corpus): train_models has no
\* handler, the exception leaves it with the assignments made so far in
\* place, and the artifact set this run was building is abandoned.  Followed
\* for runs queued by retrain_models (start-up had filled self.models); the
\* failure of the start-up run ends the process (startup_event), with no
\* request after it.
TrainFails ==
    /\ train_pc \in Signals
    /\ running = "train"
    /\ \A s \in Signals : models_before[s] # 0
    /\ train_pc' = "failed"
    /\ running' = "none"
    /\ built' = built + 1
    /\ UNCHANGED <<models, initialized, models_before, requestVars, similarVars,
                   last_call, profileVars>>

\* ------------------------------------------------------ get_recommendations
\* The engine's get_recommendations is called, with arguments from the
\* given sets.
start_request(profiles, contexts, exclude_lists) ==
    /\ pc = "idle"
    /\ running = "none"
    /\ \E user_profile \in profiles, context \in contexts,
          limit \in 0..MaxLimit, exclude_products \in exclude_lists :
          request' = [user_profile |-> user_profile, context |-> context,
                      limit |-> limit, exclude_products |-> exclude_products]
    /\ pc' = "collaborative"
    /\ running' = "req"
    /\ UNCHANGED <<engineVars, similarVars, read_from, now, locals, collaborative_recs, content_recs,
                   cultural_recs, combined_recs, filtered_recs, result, failed_at,
                   weights, last_call, profileVars>>

\* A call with any of the modelled arguments.
GetRecommendations == start_request(Profiles, Contexts, ExcludeLists)

\* One of a series of calls by the same users, in either context.
GetRecommendationsRepeated ==
    start_request(RepeatedProfiles, Contexts, {{}})

\* A call while models are being trained: the arguments that decide where
\* the call suspends (a cold-start or a known user) and what it asks for.
GetRecommendationsWhileTraining ==
    start_request(TrainingProfiles, Contexts, TrainingExcludeLists)

\* get_collaborative_recommendations up to its return or to the await of
\* the popularity query.
CollaborativeStep ==
    /\ pc = "collaborative"
    /\ running = "req"
    /\ read_from' = [read_from EXCEPT !.collaborative = models.collaborative]
    /\ IF models.collaborative = 0
       THEN /\ collaborative_recs' = <<>>
            /\ pc' = "content"
            /\ running' = "req"
       ELSE IF request.user_profile.user_id \in user_index
       THEN /\ collaborative_recs' = similar_user_recommendations(request.limit * 2)
            /\ pc' = "content"
            /\ running' = "req"
       ELSE /\ collaborative_recs' = <<>>
            /\ pc' = "popular_fetch"
            /\ running' = "none"
    /\ UNCHANGED <<engineVars, similarVars, request, now, locals, content_recs, cultural_recs,
                   combined_recs, filtered_recs, result, failed_at,
                   weights, last_call, profileVars>>

\* The popularity query answers: get_popular_recommendations returns.
PopularFetched ==
    /\ pc = "popular_fetch"
    /\ running = "none"
    /\ collaborative_recs' = get_popular_recommendations(request.limit * 2)
    /\ pc' = "content"
    /\ running' = "req"
    /\ UNCHANGED <<engineVars, similarVars, request, read_from, now, locals, content_recs,
                   cultural_recs, combined_recs, filtered_recs, result, failed_at,
                   weights, last_call, profileVars>>

\* get_content_recommendations: no await in it.
ContentStep ==
    /\ pc = "content"
    /\ running = "req"
    /\ read_from' = [read_from EXCEPT !.content = models.content]
    /\ IF models.content = 0
       THEN content_recs' = <<>>
       ELSE \E similarities \in SimilarityVectors :
              \E order \in Argsorts(similarities) :
                content_recs' = content_recommendations(similarities, order,
                                                        request.limit * 2)
    /\ pc' = "cultural"
    /\ UNCHANGED <<engineVars, similarVars, running, request, now, locals, collaborative_recs,
                   cultural_recs, combined_recs, filtered_recs, result, failed_at,
                   weights, last_call, profileVars>>

\* get_cultural_recommendations up to its early return or to the await of
\* products_query.
CulturalStep ==
    /\ pc = "cultural"
    /\ running = "req"
    /\ read_from' = [read_from EXCEPT !.cultural = models.cultural]
    /\ IF models.cultural = 0
       THEN /\ UNCHANGED <<now, locals,
                   weights, last_call, profileVars>>
            /\ pc' = "combine"
            /\ running' = "req"
       ELSE /\ \E date \in Dates :
                 /\ now' = date
                 /\ locals' = cultural_locals(date, request.user_profile)
            /\ pc' = "cultural_fetch"
            /\ running' = "none"
    /\ UNCHANGED <<engineVars, similarVars, request, collaborative_recs, content_recs,
                   cultural_recs, combined_recs, filtered_recs, result, failed_at,
                   weights, last_call, profileVars>>

\* products_query answers: get_cultural_recommendations returns.
CulturalFetched ==
    /\ pc = "cultural_fetch"
    /\ running = "none"
    /\ \E rows \in cultural_query_answers(locals.relevant_categories,
                                            locals.multiplier, request.limit * 2) :
          cultural_recs' = cultural_recommendations(rows, locals.multiplier, now)
    /\ pc' = "combine"
    /\ running' = "req"
    /\ UNCHANGED <<engineVars, similarVars, request, read_from, now, locals, collaborative_recs,
                   content_recs, combined_recs, filtered_recs, result, failed_at,
                   weights, last_call, profileVars>>

CombineStep ==
    /\ pc = "combine"
    /\ running = "req"
    /\ weights' = signal_weights(request.user_profile, request.context)
    /\ combined_recs' = combine_recommendations(collaborative_recs, content_recs,
                            cultural_recs, request.user_profile, request.context)
    /\ pc' = "filter"
    /\ UNCHANGED <<engineVars, similarVars, running, request, read_from, now, locals,
                   collaborative_recs, content_recs, cultural_recs,
                   filtered_recs, result, failed_at,
                   last_call, profileVars>>

\* apply_uzbekistan_filters up to its return (nothing to filter) or to the
\* await of the first product query.
FilterStep ==
    /\ pc = "filter"
    /\ running = "req"
    /\ IF combined_recs = <<>>
       THEN /\ pc' = "finish"
            /\ running' = "req"
       ELSE /\ pc' = "product_fetch"
            /\ running' = "none"
    /\ UNCHANGED <<engineVars, similarVars, request, read_from, now, locals, collaborative_recs,
                   content_recs, cultural_recs, combined_recs, filtered_recs,
                   result, failed_at,
                   weights, last_call, profileVars>>

\* The product queries answer (one await per candidate, taken together:
\* nothing the loop reads changes in between).
ProductsFetched ==
    /\ pc = "product_fetch"
    /\ running = "none"
    /\ filtered_recs' = apply_uzbekistan_filters(combined_recs, request.user_profile)
    /\ pc' = "finish"
    /\ running' = "req"
    /\ UNCHANGED <<engineVars, similarVars, request, read_from, now, locals, collaborative_recs,
                   content_recs, cultural_recs, combined_recs, result, failed_at,
                   weights, last_call, profileVars>>

\* The exclusion, the truncation and the return.
Finish ==
    /\ pc = "finish"
    /\ running = "req"
    /\ result' = limit_results(
                     exclude_products_from(filtered_recs, request.exclude_products),
                     request.limit)
    /\ pc' = "done"
    /\ running' = "none"
    /\ UNCHANGED <<engineVars, similarVars, request, read_from, now, locals, collaborative_recs,
                   content_recs, cultural_recs, combined_recs, filtered_recs,
                   failed_at,
                   weights, last_call, profileVars>>

\* db_pool.acquire() or the query raises (an I/O error, a timeout): no
\* handler of the request catches it, get_recommendations raises.
FetchFails ==
    /\ pc \in {"popular_fetch", "cultural_fetch", "product_fetch"}
    /\ running = "none"
    /\ failed_at' = pc
    /\ pc' = "aborted"
    /\ UNCHANGED <<engineVars, similarVars, running, request, read_from, now, locals,
                   collaborative_recs, content_recs, cultural_recs,
                   combined_recs, filtered_recs, result,
                   weights, last_call, profileVars>>

\* The caller has taken the returned list, or the exception: the call's
\* frame is gone and the next call can start.  With remember, what its
\* combine_recommendations applied is kept for comparison with the next call.
call_ends(remember) ==
    /\ pc \in {"done", "aborted"}
    /\ running = "none"
    /\ request' = NoRequest
    /\ pc' = "idle"
    /\ read_from' = NotRead
    /\ now' = NoDate
    /\ locals' = NoLocals
    /\ collaborative_recs' = <<>>
    /\ content_recs' = <<>>
    /\ cultural_recs' = <<>>
    /\ combined_recs' = <<>>
    /\ filtered_recs' = <<>>
    /\ result' = <<>>
    /\ failed_at' = "none"
    /\ weights' = NoWeights
    /\ last_call' = IF remember /\ weights # NoWeights
                    THEN [context |-> request.context,
                          region |-> request.user_profile.region,
                          weights |-> weights]
                    ELSE last_call
    /\ UNCHANGED <<engineVars, similarVars, running, profileVars>>

CallEnds == call_ends(FALSE)

CallEndsRemembered == call_ends(TRUE)

\* ---------------------------------------------- similar-products endpoint
\* POST /api/v1/similar-products/{product_id}: no await in it.
GetSimilarProducts ==
    /\ similar.status = "idle"
    /\ running = "none"
    /\ \E product_id \in Range(content_product_ids) \cup {"p9"}, limit \in 1..MaxLimit :
         IF models.content = 0
         THEN similar' = [status |-> "503", product_id |-> product_id,
                          limit |-> limit, similar_products |-> <<>>]
         ELSE IF product_id \notin Range(content_product_ids)
         THEN similar' = [status |-> "404", product_id |-> product_id,
                          limit |-> limit, similar_products |-> <<>>]
         ELSE LET similarities ==
                      similarities_to(feature_matrix,
                                      index_of(content_product_ids, product_id))
              IN \E order \in Argsorts(similarities) :
                   similar' = [status |-> "200", product_id |-> product_id,
                               limit |-> limit,
                               similar_products |->
                                   similar_products_of(similarities, order, limit)]
    /\ UNCHANGED <<engineVars, running, requestVars, feature_matrix,
                   last_call, profileVars>>

\* The response has been sent.
SimilarCallEnds ==
    /\ similar.status # "idle"
    /\ similar' = NoSimilarCall
    /\ UNCHANGED <<engineVars, running, requestVars, feature_matrix,
                   last_call, profileVars>>

\* The steps of a call up to its return or its exception.
RunningSteps ==
    \/ CollaborativeStep
    \/ PopularFetched
    \/ ContentStep
    \/ CulturalStep
    \/ CulturalFetched
    \/ CombineStep
    \/ FilterStep
    \/ ProductsFetched
    \/ Finish
    \/ FetchFails

RequestSteps ==
    \/ RunningSteps
    \/ CallEnds

\* Requests against the engine once its models are loaded (or before).
Next ==
    \/ LoadModels
    \/ GetRecommendations
    \/ RequestSteps

Spec == Init /\ [][Next]_vars

\* Requests beside start-up training and retraining.
NextTraining ==
    \/ LoadModels
    \/ LoadModelsMissing
    \/ retrain_models
    \/ TrainFetched
    \/ TrainCollaborative
    \/ TrainContent
    \/ TrainCultural
    \/ GetRecommendationsWhileTraining
    \/ RequestSteps

SpecTraining == Init /\ [][NextTraining]_vars

\* The same, with model files that are partly missing at start-up and with
\* retrain runs that fail.
NextTrainingFailures ==
    \/ NextTraining
    \/ LoadModelsSomeMissing
    \/ TrainFails

SpecTrainingFailures == Init /\ [][NextTrainingFailures]_vars

\* Calls that follow one another, each compared with the one before.
NextRepeated ==
    \/ LoadModels
    \/ GetRecommendationsRepeated
    \/ RunningSteps
    \/ CallEndsRemembered

SpecRepeated == Init /\ [][NextRepeated]_vars

\* ------------------------------------------------------ get_user_profile
engineSide == <<engineVars, running, requestVars, similarVars, last_call>>

\* get_user_profile(user_id) is called and awaits redis_client.get.
GetUserProfile ==
    /\ profile_call.pc = "idle"
    /\ \E user_id \in ProfileUserIds :
          profile_call' = [NoProfileCall EXCEPT !.pc = "cache_get",
                                                !.user_id = user_id]
    /\ UNCHANGED <<engineSide, users, cache, clock>>

\* redis answers the GET: a hit returns the parsed profile, a miss goes on
\* to the database query.
CacheGetAnswered ==
    /\ profile_call.pc = "cache_get"
    /\ LET cached_profile == redis_get(cache, cache_key(profile_call.user_id), clock)
       IN profile_call' =
            IF cached_profile # <<>>
            THEN [profile_call EXCEPT !.cached_profile = cached_profile,
                                      !.returned = json_loads(cached_profile),
                                      !.pc = "done"]
            ELSE [profile_call EXCEPT !.pc = "fetchrow"]
    /\ UNCHANGED <<engineSide, users, cache, clock>>

\* The database answers fetchrow: no row returns None, a row builds the
\* profile and awaits redis_client.setex.
FetchrowAnswered ==
    /\ profile_call.pc = "fetchrow"
    /\ LET row == users[profile_call.user_id]
       IN profile_call' =
            IF ~row.present
            THEN [profile_call EXCEPT !.row = row, !.read_store = TRUE,
                                      !.returned = NoProfile, !.pc = "done"]
            ELSE [profile_call EXCEPT !.row = row, !.read_store = TRUE,
                                      !.profile = profile_from_row(row),
                                      !.pc = "setex"]
    /\ UNCHANGED <<engineSide, users, cache, clock>>

\* redis answers the SETEX: the profile is returned.
SetexAnswered ==
    /\ profile_call.pc = "setex"
    /\ cache' = redis_setex(cache, cache_key(profile_call.user_id), CACHE_TTL,
                            json_dumps(profile_call.profile), clock)
    /\ profile_call' = [profile_call EXCEPT !.wrote_cache = TRUE,
                                            !.written_at = clock,
                                            !.returned = profile_call.profile,
                                            !.pc = "done"]
    /\ UNCHANGED <<engineSide, users, clock>>

\* The caller has taken the profile (or None).
ProfileCallEnds ==
    /\ profile_call.pc = "done"
    /\ profile_call' = NoProfileCall
    /\ UNCHANGED <<engineSide, users, cache, clock>>

\* Time passes.
Tick ==
    /\ clock < MaxTicks * TickSeconds
    /\ clock' = clock + TickSeconds
    /\ UNCHANGED <<engineSide, users, cache, profile_call>>

\* Another service changes a user's row: u1 moves to Samarkand.
UserRowUpdated ==
    /\ users["u1"].region = "TSH"
    /\ users' = [users EXCEPT !["u1"].region = "SAM"]
    /\ UNCHANGED <<engineSide, cache, clock, profile_call>>

\* Calls of get_user_profile one after the other, while time passes.
NextProfile ==
    \/ GetUserProfile
    \/ CacheGetAnswered
    \/ FetchrowAnswered
    \/ SetexAnswered
    \/ ProfileCallEnds
    \/ Tick
    \/ UserRowUpdated

SpecProfile == Init /\ [][NextProfile]_vars

\* Calls of the similar-products endpoint, over any stored feature matrix.
NextSimilar ==
    \/ LoadModels
    \/ GetSimilarProducts
    \/ SimilarCallEnds

SpecSimilar == InitSimilar /\ [][NextSimilar]_vars

\* =====================================================================
\* Properties
\* =====================================================================
Returned == pc = "done"

IdSet(recs) == Range(Ids(recs))

\* The raw score a signal's list gives a product (the last one, as the
\* merge loop overwrites).
raw_score(recs, product_id) ==
    recs[CHOOSE i \in 1..Len(recs) :
            /\ recs[i].product_id = product_id
            /\ \A j \in (i + 1)..Len(recs) : recs[j].product_id # product_id].score

\* C1: the list get_recommendations returns has at most `limit` entries and
\* no product_id occurs in it twice.
C1_AtMostLimitNoDuplicates ==
    Returned =>
        /\ Len(result) <= request.limit
        /\ \A i, j \in 1..Len(result) :
             i # j => result[i].product_id # result[j].product_id

\* C1's case: more candidates survive than are asked for, the list is cut
\* to the limit, and it holds a product that two signals listed.
C1_Witness ==
    /\ Returned
    /\ request.limit = MaxLimit
    /\ Len(result) = request.limit
    /\ Len(exclude_products_from(filtered_recs, request.exclude_products))
         > request.limit
    /\ \E i \in 1..Len(result) : Cardinality(DOMAIN result[i].scores) >= 2

\* C2: every returned candidate's total_score equals the sum of the values
\* of its per-signal scores mapping, boosted and penalised candidates
\* included.
C2_TotalIsSumOfScores ==
    Returned =>
        \A i \in 1..Len(result) :
            result[i].total_score = sum_scores(result[i].scores)

\* C3: a request reads its three artifacts from one artifact set, also
\* while a training run goes on beside it.
C3_OneArtifactSetPerRequest ==
    (\A s \in Signals : read_from[s] # -1) =>
        /\ read_from.collaborative = read_from.content
        /\ read_from.content = read_from.cultural

\* C4: an I/O failure of a signal's fetch (the popularity query, the
\* cultural products query) does not abort the request.
C4_SignalFetchFailureDoesNotAbort ==
    failed_at \in {"popular_fetch", "cultural_fetch"} => pc # "aborted"

\* C5 (its second half): for a cold-start user, no returned candidate has a
\* 'collaborative' key in its scores.
C5_ColdStartHasNoCollaborativeKey ==
    ( /\ Returned
      /\ read_from.collaborative # 0
      /\ request.user_profile.user_id \notin user_index )
    => \A i \in 1..Len(result) : "collaborative" \notin DOMAIN result[i].scores

\* The cap as C6 states it: the income tier's base (missing or unknown tier:
\* medium) times the region's cost-of-living multiplier (in hundredths; the
\* regions the requests come from).
C6_TierBase(income_level) ==
    IF income_level = "low" THEN 500000
    ELSE IF income_level = "high" THEN 10000000
    ELSE 2000000

C6_CostOfLiving(region) ==
    IF region = "TSH" THEN 120 ELSE IF region = "NAM" THEN 80 ELSE 90

C6_Cap(user_profile) ==
    (C6_TierBase(user_profile.income_level) * C6_CostOfLiving(user_profile.region))
        \div 100

\* C6: no candidate priced above the user's cap leaves the filter or is
\* returned; for region TSH and income medium the cap is 2,400,000, so of
\* the candidates priced 2,000,000 (p1) and 3,000,000 (p2) only p1 stays.
C6_NoCandidateAboveBudgetCap ==
    pc \in {"finish", "done"} =>
        /\ \A i \in 1..Len(filtered_recs) :
             /\ filtered_recs[i].price = product_row(filtered_recs[i].product_id).price
             /\ filtered_recs[i].price <= C6_Cap(request.user_profile)
        /\ \A i \in 1..Len(result) :
             product_row(result[i].product_id).price <= C6_Cap(request.user_profile)
        /\ ( /\ request.user_profile.region = "TSH"
             /\ request.user_profile.income_level = "medium" )
           => /\ C6_Cap(request.user_profile) = 2400000
              /\ "p2" \notin IdSet(filtered_recs)
              /\ "p1" \in IdSet(combined_recs) => "p1" \in IdSet(filtered_recs)

\* C6's case: the TSH / medium user, both candidates fused, only the
\* cheaper one returned.
C6_Witness ==
    /\ Returned
    /\ request.user_profile.region = "TSH"
    /\ request.user_profile.income_level = "medium"
    /\ {"p1", "p2"} \subseteq IdSet(combined_recs)
    /\ "p1" \in IdSet(result)
    /\ "p2" \notin IdSet(result)

\* part is full with the products of excluded removed and the order of the
\* others kept.
C7_RemovedInOrder(full, part, excluded) ==
    /\ IdSet(part) = IdSet(full) \ excluded
    /\ \A i \in 1..Len(part) : \E k \in 1..Len(full) : full[k] = part[i]
    /\ \A i, j \in 1..Len(part) :
         i < j => \E k, l \in 1..Len(full) :
                    k < l /\ full[k] = part[i] /\ full[l] = part[j]

\* C7: with the same signal outputs, the untruncated list with the
\* exclusion list E holds no product of E and is the untruncated list with
\* an empty exclusion list, the products of E removed and the order kept;
\* what is returned is its first `limit` entries.
C7_ExclusionKeepsOrder ==
    Returned =>
        LET unfiltered == apply_uzbekistan_filters(
                              combine_recommendations(collaborative_recs,
                                  content_recs, cultural_recs,
                                  request.user_profile, request.context),
                              request.user_profile)
            without == exclude_products_from(unfiltered, {})
            with == exclude_products_from(unfiltered, request.exclude_products)
        IN /\ without = filtered_recs
           /\ \A i \in 1..Len(with) :
                with[i].product_id \notin request.exclude_products
           /\ C7_RemovedInOrder(without, with, request.exclude_products)
           /\ result = Take(with, request.limit)
           /\ Len(with) <= request.limit => result = with

\* C7's case: nothing is truncated, an excluded product stood before a
\* kept one, and two kept ones are returned.
C7_Witness ==
    /\ Returned
    /\ Len(result) = 2
    /\ Len(filtered_recs) = 3
    /\ filtered_recs[1].product_id \in request.exclude_products
    /\ result = <<filtered_recs[2], filtered_recs[3]>>
    /\ filtered_recs[2].total_score < filtered_recs[3].total_score

\* C8: for a holiday-shopping request from a region outside {TSH, SAM},
\* every per-signal entry of a fused candidate is that signal's raw score
\* times 0.3 (collaborative), 0.1 (content), 0.6 (cultural), and a signal
\* that did not list the product has no entry.
C8_HolidayRuralWeights ==
    ( /\ pc \in {"filter", "product_fetch", "finish", "done"}
      /\ request.context = "holiday_shopping"
      /\ request.user_profile.region \notin {"TSH", "SAM"} )
    => \A i \in 1..Len(combined_recs) :
         LET e == combined_recs[i]
         IN /\ "collaborative" \in DOMAIN e.scores <=> e.product_id \in IdSet(collaborative_recs)
            /\ "content" \in DOMAIN e.scores <=> e.product_id \in IdSet(content_recs)
            /\ "cultural" \in DOMAIN e.scores <=> e.product_id \in IdSet(cultural_recs)
            /\ "collaborative" \in DOMAIN e.scores =>
                 e.scores.collaborative
                   = raw_score(collaborative_recs, e.product_id) * 3 * 100
            /\ "content" \in DOMAIN e.scores =>
                 e.scores.content = raw_score(content_recs, e.product_id) * 1 * 100
            /\ "cultural" \in DOMAIN e.scores =>
                 e.scores.cultural = raw_score(cultural_recs, e.product_id) * 6 * 100

\* C8's case: such a request, with a candidate all three signals listed.
C8_Witness ==
    /\ Returned
    /\ request.context = "holiday_shopping"
    /\ request.user_profile.region = "NAM"
    /\ \E i \in 1..Len(result) : DOMAIN result[i].scores = Signals

C9_Ramadan ==
    [categories |-> <<"food", "dates", "religious_items", "gifts">>,
     multiplier |-> 15,
     explanation |-> "Ramazon muborak! Ro'za tutish uchun tavsiya etilgan mahsulotlar"]

C9_Navruz ==
    [categories |-> <<"traditional_clothes", "decorations", "sweets">>,
     multiplier |-> 18,
     explanation |-> "Navruz bayrami muborak! An'anaviy bayram mahsulotlari"]

C9_NewYear ==
    [categories |-> <<"electronics", "toys", "clothes", "decorations">>,
     multiplier |-> 20,
     explanation |-> "Yangi yil bayrami! Bayram sovg'alari va bezaklari"]

C9_StartsWith(categories, prefix) ==
    /\ Len(prefix) <= Len(categories)
    /\ \A i \in 1..Len(prefix) : categories[i] = prefix[i]

\* The cultural generator used the branch b: its categories come first in
\* relevant_categories, its multiplier scored the rows, its explanation is
\* on every candidate.
C9_Used(b) ==
    /\ C9_StartsWith(locals.relevant_categories, b.categories)
    /\ locals.multiplier = b.multiplier
    /\ \A i \in 1..Len(cultural_recs) :
         /\ cultural_recs[i].cultural_factor = b.explanation
         /\ cultural_recs[i].score
              = product_row(cultural_recs[i].product_id).vendor_rating
                * product_row(cultural_recs[i].product_id).cultural_relevance
                * b.multiplier

\* The season branch: the season's categories, multiplier 1.0, a season
\* explanation.
C9_UsedSeason ==
    /\ locals.multiplier = 10
    /\ C9_StartsWith(locals.relevant_categories,
                     cultural_vectors(season_key(get_current_season(now.month))))
    /\ \A i \in 1..Len(cultural_recs) :
         cultural_recs[i].cultural_factor
           \notin {C9_Ramadan.explanation, C9_Navruz.explanation,
                   C9_NewYear.explanation}

\* C9: the branch of the cultural generator is chosen by the priority
\* Ramadan > Navruz > New Year > season, whatever the other flags and the
\* season are.
C9_BranchPriority ==
    (pc \in {"cultural_fetch", "combine", "filter", "product_fetch", "finish", "done"}
       /\ read_from.cultural # 0)
    => /\ now.is_ramadan => C9_Used(C9_Ramadan)
       /\ (~now.is_ramadan /\ now.is_navruz) => C9_Used(C9_Navruz)
       /\ (~now.is_ramadan /\ ~now.is_navruz /\ now.is_new_year)
            => C9_Used(C9_NewYear)
       /\ (~now.is_ramadan /\ ~now.is_navruz /\ ~now.is_new_year)
            => C9_UsedSeason

\* C9's case: all three periods at once, and the Ramadan branch gave
\* candidates.
C9_Witness ==
    /\ Returned
    /\ now.is_ramadan /\ now.is_navruz /\ now.is_new_year
    /\ cultural_recs # <<>>
    /\ \E i \in 1..Len(result) : result[i].cultural_factor = C9_Ramadan.explanation

\* C10: similar_products never holds the queried product itself.
C10_NeverReturnsItself ==
    similar.status = "200" =>
        \A i \in 1..Len(similar.similar_products) :
            similar.similar_products[i].product_id # similar.product_id

\* C11: when a training run has failed part-way, self.models is what it was
\* before the run started: no signal's artifact was replaced by the failed
\* run.
C11_FailedRunLeavesModelsUntouched ==
    train_pc = "failed" => models = models_before

\* What C12 expects of a request from a region outside the enumerated ones.
C12_Cap(income_level) ==
    ((IF income_level = "low" THEN 500000
      ELSE IF income_level = "high" THEN 10000000
      ELSE 2000000) * 9) \div 10

C12_NonUrbanWeights(context) ==
    IF context = "holiday_shopping"
    THEN [collaborative |-> 3, content |-> 1, cultural |-> 6]
    ELSE [collaborative |-> 4, content |-> 2, cultural |-> 4]

C12_Listed(signal) ==
    CASE signal = "collaborative" -> collaborative_recs
      [] signal = "content" -> content_recs
      [] signal = "cultural" -> cultural_recs

C12_Fused(product_id) ==
    combined_recs[CHOOSE k \in 1..Len(combined_recs) :
                     combined_recs[k].product_id = product_id]

C12_PenaltyApplies(user_profile, product_id) ==
    /\ user_profile.language = "uz"
    /\ product_row(product_id).name = ""
    /\ product_row(product_id).name_ru # ""

\* C12: for a user whose region is outside the 13 enumerated ones the
\* request ends with no error but an I/O failure; the cap is the tier's base
\* times 0.9, the weights are the non-urban ones, the regional category list
\* is empty, and the x1.2 boost is applied only to vendors of the user's own
\* region.
C12_UnknownRegionDefaults ==
    (pc # "idle" /\ request.user_profile.region \notin EnumeratedRegions) =>
        LET user_profile == request.user_profile
            cap == C12_Cap(user_profile.income_level)
            non_urban == C12_NonUrbanWeights(request.context)
        IN /\ pc = "aborted" =>
                failed_at \in {"popular_fetch", "cultural_fetch", "product_fetch"}
           /\ locals # NoLocals =>
                locals.relevant_categories
                  = cultural_branch(now.is_ramadan, now.is_navruz, now.is_new_year,
                                    get_current_season(now.month)).categories
           /\ \A i \in 1..Len(combined_recs) :
                \A s \in DOMAIN combined_recs[i].scores :
                    combined_recs[i].scores[s]
                      = raw_score(C12_Listed(s), combined_recs[i].product_id)
                        * non_urban[s] * 100
           /\ pc \in {"finish", "done"} =>
                /\ Ids(filtered_recs)
                     = SelectSeq(Ids(combined_recs),
                                 LAMBDA q : /\ product_row(q).present
                                            /\ product_row(q).price <= cap)
                /\ \A i \in 1..Len(filtered_recs) :
                     LET rec == filtered_recs[i]
                         fused == C12_Fused(rec.product_id).total_score
                         boosted == IF product_row(rec.product_id).vendor_region
                                         = user_profile.region
                                    THEN (fused * 12) \div 10 ELSE fused
                     IN rec.total_score
                          = IF C12_PenaltyApplies(user_profile, rec.product_id)
                            THEN (boosted * 8) \div 10 ELSE boosted

\* C12's case: such a user with the medium tier (cap 1,800,000): the
\* candidate priced 2,000,000 is dropped, a cheaper one from a vendor in an
\* enumerated region is returned, and the cultural generator ran.
C12_Witness ==
    /\ Returned
    /\ request.user_profile.region \notin EnumeratedRegions
    /\ request.user_profile.income_level = "medium"
    /\ "p1" \in IdSet(combined_recs)
    /\ "p1" \notin IdSet(filtered_recs)
    /\ locals # NoLocals
    /\ cultural_recs # <<>>
    /\ result # <<>>

\* C13: the returned list is in non-increasing order of total_score as it
\* stands after the boost and the penalty, and it holds the highest-scoring
\* survivors: no survivor left out scores more than a returned one.
C13_ReturnedInAdjustedScoreOrder ==
    Returned =>
        LET survivors == exclude_products_from(filtered_recs, request.exclude_products)
        IN /\ \A i, j \in 1..Len(result) :
                i < j => result[i].total_score >= result[j].total_score
           /\ \A i \in 1..Len(result) :
                \A k \in 1..Len(survivors) :
                    survivors[k].product_id \notin IdSet(result)
                    => survivors[k].total_score <= result[i].total_score

\* C14: when the user has no row in user_index, and also when no
\* collaborative artifact is loaded, the collaborative candidates are the
\* popularity fallback's, and the content and cultural generators have run
\* by the time the lists are fused.
C14_FallbackInBothTriggerCases ==
    ( /\ pc \in {"combine", "filter", "product_fetch", "finish", "done"}
      /\ \/ read_from.collaborative = 0
         \/ request.user_profile.user_id \notin user_index )
    => /\ collaborative_recs = get_popular_recommendations(request.limit * 2)
       /\ read_from.content # -1
       /\ read_from.cultural # -1

\* C15: the three generators of a request are invoked concurrently: while
\* the collaborative generator waits for the answer of its popularity
\* query, the content and cultural generators have already been started
\* (each has read its artifact), rather than waiting for it to return.
C15_GeneratorsStartedConcurrently ==
    pc = "popular_fetch" =>
        /\ read_from.content # -1
        /\ read_from.cultural # -1

\* The items the other users of the collaborative model rated highly.
C16_NeighbourItems ==
    { r.product_id : r \in { x \in user_interactions :
                                /\ x.user_id # request.user_profile.user_id
                                /\ x.rating >= 4 } }

\* C16: for a user with a row in the collaborative model, the collaborative
\* generator returns the items its most similar other users prefer, so its
\* candidate list is not empty when those users have preferred items.
C16_KnownUserGetsNeighbourItems ==
    ( /\ pc \in {"content", "cultural", "cultural_fetch", "combine", "filter",
                  "product_fetch", "finish", "done"}
      /\ read_from.collaborative > 0
      /\ request.user_profile.user_id \in user_index
      /\ request.limit > 0
      /\ C16_NeighbourItems # {} )
    => /\ collaborative_recs # <<>>
       /\ IdSet(collaborative_recs) \subseteq C16_NeighbourItems

\* C17 as stated: weights carry over between requests, so the cultural
\* weight a holiday-shopping request applies is larger than the one the
\* holiday-shopping request before it applied.
C17_CulturalWeightCompounds ==
    ( /\ weights # NoWeights
      /\ request.context = "holiday_shopping"
      /\ last_call.context = "holiday_shopping" )
    => weights.cultural > last_call.weights.cultural

\* C17 amended: the weights are rebuilt from 0.4 / 0.3 / 0.3 on every call.
\* A call applies the same weights as the call before it when context and
\* kind of region (urban or not) are the same, a holiday-shopping call
\* always applies cultural 0.4 (urban) or 0.6 (elsewhere), and the three
\* weights sum to 1.0.
C17_WeightsRebuiltPerRequest ==
    weights # NoWeights =>
        /\ weights.collaborative + weights.content + weights.cultural = 10
        /\ request.context = "holiday_shopping" =>
             weights.cultural
               = IF request.user_profile.region \in {"TSH", "SAM"} THEN 4 ELSE 6
        /\ ( /\ last_call.context = request.context
             /\ (last_call.region \in {"TSH", "SAM"})
                  <=> (request.user_profile.region \in {"TSH", "SAM"}) )
           => weights = last_call.weights

\* C17's case: a holiday-shopping call has returned after an earlier
\* holiday-shopping call from the same region.
C17_Witness ==
    /\ Returned
    /\ weights # NoWeights
    /\ request.context = "holiday_shopping"
    /\ last_call.context = "holiday_shopping"
    /\ last_call.region = request.user_profile.region
    /\ result # <<>>

C18_Listed(signal) ==
    CASE signal = "collaborative" -> collaborative_recs
      [] signal = "content" -> content_recs
      [] signal = "cultural" -> cultural_recs

\* C18: a generator that finds no artifact for its signal returns an empty
\* list and sends no query; the lists of the other signals are fused all
\* the same, and a fused candidate has a score entry for exactly the
\* signals that listed it.
C18_MissingModelGivesEmptySignal ==
    /\ \A s \in Signals : read_from[s] = 0 => C18_Listed(s) = <<>>
    /\ read_from.collaborative = 0 => pc # "popular_fetch"
    /\ read_from.cultural = 0 =>
         /\ pc # "cultural_fetch"
         /\ locals = NoLocals
         /\ failed_at # "cultural_fetch"
    /\ pc \in {"filter", "product_fetch", "finish", "done"} =>
         /\ IdSet(combined_recs)
              = UNION { IdSet(C18_Listed(s)) : s \in Signals }
         /\ \A i \in 1..Len(combined_recs) :
              DOMAIN combined_recs[i].scores
                = { s \in Signals :
                      combined_recs[i].product_id \in IdSet(C18_Listed(s)) }

\* C18's case: the cultural artifact is missing, the other two are loaded,
\* and a returned candidate was listed by only one of them.
C18_Witness ==
    /\ Returned
    /\ read_from.cultural = 0
    /\ read_from.collaborative > 0
    /\ read_from.content > 0
    /\ collaborative_recs # <<>>
    /\ content_recs # <<>>
    /\ \E i \in 1..Len(result) : Cardinality(DOMAIN result[i].scores) = 1
    /\ \E i \in 1..Len(result) : Cardinality(DOMAIN result[i].scores) = 2

\* Whether C19 expects the x1.2 factor: the vendor is in the user's region
\* or in a region listed as adjacent to it (the regions requests come from).
C19_Local(user_region, vendor_region) ==
    \/ vendor_region = user_region
    \/ user_region = "TSH" /\ vendor_region \in {"SIR", "JIZ"}
    \/ user_region = "NAM" /\ vendor_region \in {"AND", "FAR"}

\* Whether C19 expects the x0.8 factor.
C19_RussianOnly(language, product) ==
    language = "uz" /\ product.name_ru # "" /\ product.name = ""

C19_FusedScore(product_id) ==
    combined_recs[CHOOSE k \in 1..Len(combined_recs) :
                     combined_recs[k].product_id = product_id].total_score

\* C19: after apply_uzbekistan_filters a surviving candidate's score is its
\* fused score, times 1.2 once if the vendor is local or adjacent, times 0.8
\* once if the user's language is 'uz' and the product has only a Russian
\* name; the survivors are the candidates that have a catalog row and are
\* within the price cap, in the fused order, whatever their vendor's region;
\* a candidate without a row is left out and the request goes on.
C19_BoostAndPenaltyFactors ==
    pc \in {"finish", "done"} =>
        LET user_profile == request.user_profile
        IN /\ Ids(filtered_recs)
                = SelectSeq(Ids(combined_recs),
                      LAMBDA q : /\ product_row(q).present
                                 /\ product_row(q).price
                                      <= get_max_price_for_user(user_profile))
           /\ \A i \in 1..Len(filtered_recs) :
                LET rec == filtered_recs[i]
                    product == product_row(rec.product_id)
                    fused == C19_FusedScore(rec.product_id)
                    local == C19_Local(user_profile.region, product.vendor_region)
                    russian_only == C19_RussianOnly(user_profile.language, product)
                IN rec.total_score * 100
                     = fused * (IF local THEN 12 ELSE 10)
                             * (IF russian_only THEN 8 ELSE 10)
           /\ failed_at = "none"

\* C19's case: a returned list whose candidates include one boosted for an
\* adjacent region and penalised for its Russian-only name, one boosted for
\* the user's own region, while a fused candidate without a catalog row was
\* left out.
C19_Witness ==
    /\ Returned
    /\ request.user_profile.region = "TSH"
    /\ request.user_profile.language = "uz"
    /\ {"p1", "p2", "p5"} \subseteq IdSet(combined_recs)
    /\ {"p1", "p2"} \subseteq IdSet(result)
    /\ "p5" \notin IdSet(filtered_recs)

\* C19's case with an adjacent region alone: a NAM user and a FAR vendor.
C19_WitnessAdjacent ==
    /\ Returned
    /\ request.user_profile.region = "NAM"
    /\ "p6" \in IdSet(result)

\* The product ids in the order the merge loops meet them: the
\* collaborative list, then the content list, then the cultural list.
C20_MergeOrder ==
    Ids(collaborative_recs) \o Ids(content_recs) \o Ids(cultural_recs)

C20_FirstSeen(product_id) ==
    CHOOSE k \in 1..Len(C20_MergeOrder) :
        /\ C20_MergeOrder[k] = product_id
        /\ \A m \in 1..(k - 1) : C20_MergeOrder[m] # product_id

\* C20: the list combine_recommendations returns is in non-increasing order
\* of total_score, and candidates with equal total_score stand in the order
\* they were first seen by the merge (collaborative list, then content
\* list, then cultural list, each in its own order).
C20_SortedStableByFirstSeen ==
    pc \in {"filter", "product_fetch", "finish", "done"} =>
        \A i, j \in 1..Len(combined_recs) :
            i < j =>
                /\ combined_recs[i].total_score >= combined_recs[j].total_score
                /\ combined_recs[i].total_score = combined_recs[j].total_score
                   => C20_FirstSeen(combined_recs[i].product_id)
                        < C20_FirstSeen(combined_recs[j].product_id)

\* C20's case: two fused candidates tie; the first was introduced by the
\* content list, the second by the cultural list, which lists the first one
\* too and after the second.
C20_Witness ==
    /\ pc = "filter"
    /\ \E i, j \in 1..Len(combined_recs) :
         /\ i < j
         /\ combined_recs[i].total_score = combined_recs[j].total_score
         /\ combined_recs[i].product_id \in IdSet(content_recs)
         /\ combined_recs[j].product_id \notin IdSet(collaborative_recs)
         /\ combined_recs[j].product_id \notin IdSet(content_recs)
         /\ \E a, b \in 1..Len(cultural_recs) :
              /\ a < b
              /\ cultural_recs[a].product_id = combined_recs[j].product_id
              /\ cultural_recs[b].product_id = combined_recs[i].product_id

C21_Key == <<"user_profile", profile_call.user_id>>

\* What C21 expects of a finished call.
C21_Returned ==
    profile_call.pc = "done" =>
        IF profile_call.cached_profile # <<>>
        THEN \* a hit: the cached profile, no store read, no cache write
             /\ profile_call.returned = json_loads(profile_call.cached_profile)
             /\ profile_call.returned.user_id = profile_call.user_id
             /\ ~profile_call.read_store
             /\ ~profile_call.wrote_cache
             /\ cache[C21_Key].value = profile_call.cached_profile
        ELSE IF profile_call.row.present
        THEN \* a miss, user in the store: the stored profile, written to
             \* the cache under the user's key with the configured TTL
             /\ profile_call.read_store
             /\ profile_call.returned
                  = [user_id |-> profile_call.user_id,
                     region |-> profile_call.row.region,
                     language |-> IF profile_call.row.language = "None"
                                  THEN "uz" ELSE profile_call.row.language,
                     income_level |-> profile_call.row.income_level]
             /\ profile_call.wrote_cache
             /\ cache[C21_Key].value # <<>>
             /\ json_loads(cache[C21_Key].value) = profile_call.returned
             /\ cache[C21_Key].expires = profile_call.written_at + 1800
             /\ \A k \in CacheKeys \ {C21_Key} :
                  cache[k].value # <<>> =>
                      json_loads(cache[k].value).user_id # profile_call.user_id
        ELSE \* a miss, user absent: None, nothing written
             /\ profile_call.read_store
             /\ profile_call.returned = NoProfile
             /\ ~profile_call.wrote_cache
             /\ cache[C21_Key] = NoEntry

\* The answer of the cache read: while the user's key holds an unexpired
\* value, the call is a hit.
C21_LiveEntryIsHit ==
    (profile_call.pc = "cache_get" /\ profile_call'.pc # "cache_get") =>
        ( (cache[C21_Key].value # <<>> /\ clock < cache[C21_Key].expires)
          => /\ profile_call'.pc = "done"
             /\ profile_call'.cached_profile = cache[C21_Key].value )

\* C21: get_user_profile is cache-aside over any sequence of calls: a hit
\* returns the cached profile without reading the store; a miss with the
\* user in the store returns the stored profile and writes it under the
\* user's key with the TTL, so that a call within the TTL is a hit; a miss
\* with the user absent returns None and writes nothing.
C21_CacheAside == [](C21_Returned) /\ [][C21_LiveEntryIsHit]_vars

\* C21's case: a call is a hit within the TTL of an earlier call's write,
\* after the user's row has changed in the store.
C21_Witness ==
    /\ profile_call.pc = "done"
    /\ profile_call.user_id = "u1"
    /\ profile_call.cached_profile # <<>>
    /\ clock > 0
    /\ clock < cache[C21_Key].expires
    /\ users["u1"].region # profile_call.returned.region

====
